---- MODULE Spec2Model ----
(***************************************************************************)
(* A model of waterbutler/providers/onedrive/provider.py: OneDriveProvider *)
(* and the requests it issues to the OneDrive REST backend.                *)
(*                                                                         *)
(* Strings the code takes apart (paths, identifiers) are sequences of      *)
(* one-character strings; JSON objects are records whose DOMAIN is the     *)
(* object's key set.  Every coroutine is cut at its suspension points      *)
(* (each `yield from self.make_request`): the step that issues a request   *)
(* and the step that consumes the backend's answer.                        *)
(***************************************************************************)
EXTENDS Naturals, Sequences, FiniteSets, TLC

\* ------------------------------------------------------------------ bounds

\* Requests remembered per invocation; the log saturates at this length.
MaxReqs == 5
\* Recursion depth remembered for intra_copy; the depth saturates here.
MaxDepth == 2
\* Children in a folder record of a backend answer.
MaxChildren == 2
\* Entries in a delta feed answer.
MaxFeed == 2

\* ----------------------------------------------------------------- strings

Str0 == <<>>
Slash == "/"

LowerChar(ch) == IF ch = "A" THEN "a" ELSE IF ch = "B" THEN "b" ELSE ch

\* str.lower()
Lower(s) == [i \in DOMAIN s |-> LowerChar(s[i])]

\* str.rindex(ch): the last position of ch (0 stands for ValueError).
RIndex(s, ch) ==
  IF \E i \in DOMAIN s : s[i] = ch
  THEN CHOOSE i \in DOMAIN s : s[i] = ch /\ \A j \in DOMAIN s : s[j] = ch => j <= i
  ELSE 0

RECURSIVE SplitFrom(_, _, _, _)
SplitFrom(s, ch, i, cur) ==
  IF i > Len(s) THEN <<cur>>
  ELSE IF s[i] = ch THEN <<cur>> \o SplitFrom(s, ch, i + 1, <<>>)
  ELSE SplitFrom(s, ch, i + 1, Append(cur, s[i]))

\* str.split(ch)
Split(s, ch) == SplitFrom(s, ch, 1, <<>>)

\* parts[-2] (Str0 stands for IndexError when there are fewer than two parts).
Penultimate(parts) == IF Len(parts) >= 2 THEN parts[Len(parts) - 1] ELSE Str0

\* s[i..] starts with sub
StartsAt(s, i, sub) ==
  /\ i + Len(sub) - 1 <= Len(s)
  /\ \A k \in 1..Len(sub) : s[i + k - 1] = sub[k]

RECURSIVE RemoveFrom(_, _, _)
RemoveFrom(s, sub, i) ==
  IF i > Len(s) THEN <<>>
  ELSE IF StartsAt(s, i, sub) THEN RemoveFrom(s, sub, i + Len(sub))
  ELSE <<s[i]>> \o RemoveFrom(s, sub, i + 1)

\* str.replace(sub, ''): every non-overlapping occurrence, left to right
Remove(s, sub) == IF sub = <<>> THEN s ELSE RemoveFrom(s, sub, 1)

\* The first position at or after i of a character of chars (Len(s) + 1: none).
FirstOf(s, i, chars) ==
  IF \E j \in i..Len(s) : s[j] \in chars
  THEN CHOOSE j \in i..Len(s) : s[j] \in chars /\ \A k \in i..Len(s) : s[k] \in chars => j <= k
  ELSE Len(s) + 1

\* urlparse(s).path of a string with no scheme: a leading '//' opens the
\* network location, which runs to the next '/', '?' or '#'; the path ends
\* at the first '?' or '#'.
UrlPath(s) ==
  LET from == IF StartsAt(s, 1, <<"/", "/">>) THEN FirstOf(s, 3, {"/", "?", "#"}) ELSE 1
      to == FirstOf(s, from, {"?", "#"}) - 1
  IN SubSeq(s, from, to)

\* ------------------------------------------------------------------- paths

\* The configured root folder identifier (settings['folder']).
Folders == { <<"r">>, <<"0">> }

\* str(path) of the paths callers hand in.
PathInputs ==
  { <<"/", "a">>, <<"/", "A">>, <<"/", "a", "b", "/", "a">>, <<"/", "a", "/", "a">> }

\* WaterButlerPath(path, prepend=folder).full_path
full_path(fld, path) == fld \o path

\* _get_one_drive_id: the text after the last '/'
GetOneDriveIdTail(fp) == SubSeq(fp, RIndex(fp, Slash) + 1, Len(fp))
_get_one_drive_id(fld, path) == GetOneDriveIdTail(full_path(fld, path))

\* _get_sub_folder_path: the parent segment, read off the full path with the
\* file name removed
_get_sub_folder_path(fld, path, fileName) ==
  Penultimate(Split(UrlPath(Remove(full_path(fld, path), fileName)), Slash))

Ids == { GetOneDriveIdTail(p) : p \in PathInputs }

\* --------------------------------------------------------------- variables

Callers == {"c1", "c2"}
\* The callers that issue operations one after the other.
SeqCallers == {"c1"}

VARIABLES
  token,     \* self.token
  folder,    \* self.folder
  calls,     \* per caller: the invocation in progress
  present,   \* backend: identifiers of the items that exist
  gone,      \* backend: identifiers deleted with status 204 and not re-created
  made       \* backend: identifiers an upload of this adapter created, still there

vars == <<token, folder, calls, present, gone, made>>

NoBody == [t |-> "none"]
NoResp == [status |-> 0, body |-> NoBody]
NoVal == [t |-> "none"]
NoOut == [kind |-> "none", err |-> "", code |-> 0, val |-> NoVal]

Idle ==
  [op |-> "idle", pc |-> "idle", path |-> Str0, dest |-> Str0, rev |-> "",
   reqs |-> <<>>, depth |-> 0, exists |-> FALSE, existed |-> FALSE, reup |-> FALSE,
   saw |-> {}, resp |-> NoResp, out |-> NoOut]

\* --------------------------------------------------------------- requests

Req(m, kind, target, arg) == [m |-> m, kind |-> kind, target |-> target, arg |-> arg]

\* The request log of an invocation: it saturates at MaxReqs.
Log(reqs, r) == IF Len(reqs) < MaxReqs THEN Append(reqs, r) ELSE reqs

Count(reqs, kind) == Cardinality({ i \in DOMAIN reqs : reqs[i].kind = kind })

Return(v) == [kind |-> "return", err |-> "", code |-> 0, val |-> v]
Raise(err, code) == [kind |-> "raise", err |-> err, code |-> code, val |-> NoVal]

\* ---------------------------------------------------------- backend answers

ChildNames == { <<"x">>, <<"y">> }

\* The child records of a folder record: a file, a folder, a deleted file.
ChildDicts ==
  UNION { { [id |-> n], [id |-> n, folder |-> TRUE], [id |-> n, deleted |-> TRUE] }
          : n \in ChildNames }

RECURSIVE SeqsUpTo(_, _)
SeqsUpTo(S, n) ==
  IF n = 0 THEN { <<>> }
  ELSE LET shorter == SeqsUpTo(S, n - 1)
       IN shorter \cup { Append(s, x) : s \in { t \in shorter : Len(t) = n - 1 }, x \in S }

ChildLists == SeqsUpTo(ChildDicts, MaxChildren)

\* The item records a 200 answer to a metadata lookup carries for identifier id.
LiveDicts(id) ==
  { [id |-> id], [id |-> id, folder |-> TRUE] }
  \cup { [id |-> id, folder |-> TRUE, children |-> k] : k \in ChildLists }

DeletedDicts(id) ==
  { [id |-> id, deleted |-> TRUE], [id |-> id, folder |-> TRUE, deleted |-> TRUE] }

\* The item records a 200/201 answer to a copy request carries: a file, or a
\* folder marked with the key `key`, with or without its children.
CopyDicts(id, key) ==
  LET f == [id |-> <<"x">>]
      d == [id |-> <<"y">>] @@ (key :> TRUE)
  IN { [id |-> id],
       [id |-> id] @@ (key :> TRUE),
       [id |-> id, children |-> <<>>] @@ (key :> TRUE),
       [id |-> id, children |-> <<f>>] @@ (key :> TRUE),
       [id |-> id, children |-> <<d, f>>] @@ (key :> TRUE) }

ErrorDict == [error |-> TRUE]

\* The backend stores the item id (a create, an upload or a copy took effect).
Stored(id) == /\ present' = present \cup {id}
              /\ gone' = gone \ {id}
              /\ made' = made
\* The backend stores the content an upload wrote at id.
Uploaded(id) == /\ present' = present \cup {id}
                /\ gone' = gone \ {id}
                /\ made' = made \cup {id}
\* The backend removes the item id (a DELETE answered 204).
Removed(id) == /\ present' = present \ {id}
               /\ gone' = gone \cup {id}
               /\ made' = made \ {id}

\* ------------------------------------------------------------------- Init

Init ==
  /\ token = "tok"
  /\ folder \in Folders
  /\ calls = [c \in Callers |-> Idle]
  /\ present \in SUBSET Ids
  /\ gone = {}
  /\ made = {}

Set(c, call) == calls' = [calls EXCEPT ![c] = call]

\* --------------------------------------------------------------- intra_copy

\* dict.get(key) as a truth value
Truthy(d, key) == key \in DOMAIN d /\ d[key] = TRUE

OneDriveFileMetadata(data) == [t |-> "file", raw |-> data]
OneDriveFolderMetadata(data) == [t |-> "folder", raw |-> data]

\* The copy request intra_copy issues: build_url('id', 'action.copy') with a
\* fixed body.
IntraCopyReq == Req("POST", "copy", <<"i", "d">>, <<"p", "a", "r", "e", "n", "t", "_", "i", "d">>)

\* Lines 84-98: the result built from a 200/201 answer.
IntraCopyResult(data) ==
  IF "directory" \notin DOMAIN data THEN Return([meta |-> OneDriveFileMetadata(data), created |-> TRUE])
  ELSE IF "children" \notin DOMAIN data THEN Raise("KeyError", 0)
  ELSE Return([meta |-> [t |-> "folder", raw |-> data,
                         children |-> [i \in DOMAIN data.children |->
                            IF "directory" \in DOMAIN data.children[i]
                            THEN OneDriveFolderMetadata(data.children[i])
                            ELSE OneDriveFileMetadata(data.children[i])]],
               created |-> TRUE])

\* Lines 81-82: every outer frame of the recursion returns (resp, False).
IntraCopyUnwind(out, depth) ==
  IF out.kind = "return" /\ depth > 0
  THEN Return([meta |-> out.val.meta, created |-> FALSE])
  ELSE out

CopyStatuses == {200, 201, 202, 403, 404, 500}
DeleteStatuses == {204, 403, 404, 500}

intra_copy(c) ==
  \E src \in PathInputs, dst \in PathInputs :
    /\ calls[c].op = "idle"
    /\ Set(c, [Idle EXCEPT !.op = "intra_copy", !.pc = "copy_wait",
                           !.path = src, !.dest = dst,
                           !.existed = (_get_one_drive_id(folder, dst) \in present),
                           !.reqs = <<IntraCopyReq>>])
    /\ UNCHANGED <<token, folder, present, gone, made>>

\* The item deleted in place of the destination: the source.
IntraCopyDeleteTarget_Source(fld, src, dst) == _get_one_drive_id(fld, src)

\* Line 80: the item dest_provider.delete(dest_path) deletes.
IntraCopyDeleteTarget(fld, src, dst) == _get_one_drive_id(fld, dst)

intra_copy_resp(c) ==
  LET call == calls[c]
      dleaf == _get_one_drive_id(folder, call.dest)
  IN
  /\ call.op = "intra_copy" /\ call.pc = "copy_wait"
  /\ \E st \in CopyStatuses :
       \/ /\ st \in {200, 201}
          /\ \E data \in CopyDicts(dleaf, "directory") :
               Set(c, [call EXCEPT !.pc = "done", !.saw = @ \cup {st},
                         !.resp = [status |-> st, body |-> data],
                         !.out = IntraCopyUnwind(IntraCopyResult(data), call.depth)])
          /\ Stored(dleaf)
       \/ /\ st \notin {200, 201} /\ st # 403
          /\ Set(c, [call EXCEPT !.pc = "done", !.saw = @ \cup {st},
                       !.resp = [status |-> st, body |-> NoBody],
                       !.out = Raise("IntraCopyError", st)])
          /\ UNCHANGED <<present, gone, made>>
       \/ /\ st = 403
          /\ Set(c, [call EXCEPT !.pc = "delete_wait", !.saw = @ \cup {st},
                       !.resp = [status |-> st, body |-> NoBody],
                       !.reqs = Log(@, Req("DELETE", "delete",
                                          IntraCopyDeleteTarget(folder, call.path, call.dest), Str0))])
          /\ UNCHANGED <<present, gone, made>>
  /\ UNCHANGED <<token, folder>>

\* Lines 80-81: dest_provider.delete(dest_path) answered, then the recursive call.
intra_copy_delete_resp(c) ==
  LET call == calls[c] IN
  /\ call.op = "intra_copy" /\ call.pc = "delete_wait"
  /\ \E st \in DeleteStatuses :
       \/ /\ st = 204
          /\ Set(c, [call EXCEPT !.pc = "copy_wait",
                       !.resp = [status |-> st, body |-> NoBody],
                       !.depth = IF @ < MaxDepth THEN @ + 1 ELSE @,
                       !.reqs = Log(@, IntraCopyReq)])
          /\ Removed(IntraCopyDeleteTarget(folder, call.path, call.dest))
       \/ /\ st # 204
          /\ Set(c, [call EXCEPT !.pc = "done",
                       !.resp = [status |-> st, body |-> NoBody],
                       !.out = Raise("DeleteError", st)])
          /\ UNCHANGED <<present, gone, made>>
  /\ UNCHANGED <<token, folder>>

\* --------------------------------------------------------------- intra_move

MoveStatuses == {200, 201, 202, 403, 404, 500}

\* Lines 114-120: the copy request intra_move issues.
IntraMoveReq(fld, src, dst) ==
  Req("POST", "copy", _get_one_drive_id(fld, src),
      Penultimate(Split(full_path(fld, dst), Slash)))

\* Line 104: the case-only rename test.
SameButCase(fld, src, dst) == Lower(full_path(fld, dst)) = Lower(full_path(fld, src))

\* Lines 141-155: the result built from the answer's JSON.  An answer with no
\* body has no JSON object: resp.json() gives None (data.keys() fails) or fails
\* itself, by the HTTP library's version.
IntraMoveResult(data) ==
  IF data = NoBody THEN Raise("AttributeError", 0)
  ELSE IF "folder" \notin DOMAIN data THEN Return([meta |-> OneDriveFileMetadata(data), created |-> TRUE])
  ELSE IF "children" \notin DOMAIN data THEN Raise("KeyError", 0)
  ELSE Return([meta |-> [t |-> "folder", raw |-> data,
                         children |-> [i \in DOMAIN data.children |->
                            IF "folder" \in DOMAIN data.children[i]
                            THEN OneDriveFolderMetadata(data.children[i])
                            ELSE OneDriveFileMetadata(data.children[i])]],
               created |-> TRUE])

\* Lines 125-139: the answer's status against expects=(200, 202); a 403 is
\* swallowed and line 141 then reads `resp`, which was never bound.
IntraMoveOutcome(st, data) ==
  IF st \in {200, 202} THEN IntraMoveResult(data)
  ELSE IF st = 403 THEN Raise("UnboundLocalError", 0)
  ELSE Raise("IntraMoveError", st)

intra_move(c) ==
  \E src \in PathInputs, dst \in PathInputs :
    /\ calls[c].op = "idle"
    /\ IF SameButCase(folder, src, dst)
       THEN Set(c, [Idle EXCEPT !.op = "intra_move", !.pc = "done",
                              !.path = src, !.dest = dst,
                              !.existed = (_get_one_drive_id(folder, dst) \in present),
                              !.out = Raise("InvalidPathError", 0)])
       ELSE Set(c, [Idle EXCEPT !.op = "intra_move", !.pc = "copy_wait",
                              !.path = src, !.dest = dst,
                              !.existed = (_get_one_drive_id(folder, dst) \in present),
                              !.reqs = <<IntraMoveReq(folder, src, dst)>>])
    /\ UNCHANGED <<token, folder, present, gone, made>>

\* The bodies the backend sends with a status: an item record with 200 (and,
\* outside the expected set, 201), nothing or a monitor object with 202.
MoveBodies(st, id) ==
  IF st \in {200, 201} THEN CopyDicts(id, "folder")
  ELSE IF st = 202 THEN { NoBody, [status |-> TRUE] }
  ELSE { NoBody }

intra_move_resp(c) ==
  LET call == calls[c]
      dleaf == _get_one_drive_id(folder, call.dest)
  IN
  /\ call.op = "intra_move" /\ call.pc = "copy_wait"
  /\ \E st \in MoveStatuses :
       /\ \E data \in MoveBodies(st, dleaf) :
            Set(c, [call EXCEPT !.pc = "done", !.saw = @ \cup {st},
                      !.resp = [status |-> st, body |-> data],
                      !.out = IntraMoveOutcome(st, data)])
       /\ IF st \in {200, 201} THEN Stored(dleaf) ELSE UNCHANGED <<present, gone, made>>
  /\ UNCHANGED <<token, folder>>

\* ----------------------------------------------------------------- download

ETags == {"e1", "e2"}
Urls == {"u1", "u2"}
\* The revision argument: None, or a token.
Revisions == {""} \cup ETags

\* The entries of a delta feed ('value'): eTag, @content.downloadUrl, and the
\* deleted marker on some.
FeedEntries ==
  { [eTag |-> e, downloadUrl |-> u] : e \in ETags, u \in Urls }
  \cup { [eTag |-> e, downloadUrl |-> u, deleted |-> TRUE] : e \in ETags, u \in Urls }

Feeds == SeqsUpTo(FeedEntries, MaxFeed)

\* Lines 304-312: the delta feed request of _revisions_json.
RevisionsReq(path) == Req("GET", "delta", path, <<"2", "5", "0">>)

\* The scan without its `break`: the last matching entry wins.
FirstMatchUrl_NoBreak(items, revision) ==
  LET hits == { i \in DOMAIN items : items[i].eTag = revision }
  IN IF hits = {} THEN ""
     ELSE items[CHOOSE i \in hits : \A j \in hits : j <= i].downloadUrl

\* Lines 165-168: the download URL of the first entry whose eTag is the
\* revision; "" stands for None.
FirstMatchUrl(items, revision) ==
  LET hits == { i \in DOMAIN items : items[i].eTag = revision }
  IN IF hits = {} THEN ""
     ELSE items[CHOOSE i \in hits : \A j \in hits : i <= j].downloadUrl

FeedStatuses == {200, 404, 500}
ContentStatuses == {200, 404, 500}
BytesStatuses == {200, 206, 404, 500}

download(c) ==
  \E path \in PathInputs, revision \in Revisions :
    /\ calls[c].op = "idle"
    /\ IF revision # ""
       THEN Set(c, [Idle EXCEPT !.op = "download", !.pc = "feed_wait",
                              !.path = path, !.rev = revision,
                              !.reqs = <<RevisionsReq(path)>>])
       ELSE Set(c, [Idle EXCEPT !.op = "download", !.pc = "content_wait",
                              !.path = path, !.rev = revision,
                              !.reqs = <<Req("GET", "content", _get_one_drive_id(folder, path), Str0)>>])
    /\ UNCHANGED <<token, folder, present, gone, made>>

\* The download-bytes request issued a second time.
DownloadAfterResolve_BytesTwice(call, resp, downloadUrl) ==
  IF downloadUrl = ""
  THEN [call EXCEPT !.pc = "done", !.resp = resp, !.out = Raise("NotFoundError", 404)]
  ELSE [call EXCEPT !.pc = "bytes_wait", !.resp = resp,
                    !.reqs = Log(Log(@, Req("GET", "bytes", downloadUrl, Str0)),
                                 Req("GET", "bytes", downloadUrl, Str0))]

\* Lines 181-190 after the scan: NotFoundError, or the download-bytes request.
DownloadAfterResolve(call, resp, downloadUrl) ==
  IF downloadUrl = ""
  THEN [call EXCEPT !.pc = "done", !.resp = resp, !.out = Raise("NotFoundError", 404)]
  ELSE [call EXCEPT !.pc = "bytes_wait", !.resp = resp,
                    !.reqs = Log(@, Req("GET", "bytes", downloadUrl, Str0))]

download_feed_resp(c) ==
  LET call == calls[c] IN
  /\ call.op = "download" /\ call.pc = "feed_wait"
  /\ \E st \in FeedStatuses :
       IF st = 200
       THEN \E items \in Feeds :
              Set(c, DownloadAfterResolve(call, [status |-> st, body |-> [value |-> items]],
                                          FirstMatchUrl(items, call.rev)))
       ELSE Set(c, [call EXCEPT !.pc = "done", !.resp = [status |-> st, body |-> NoBody],
                                !.out = Raise("RevisionsError", st)])
  /\ UNCHANGED <<token, folder, present, gone, made>>

download_content_resp(c) ==
  LET call == calls[c] IN
  /\ call.op = "download" /\ call.pc = "content_wait"
  /\ \E st \in ContentStatuses :
       IF st = 200
       THEN \E u \in Urls :
              Set(c, DownloadAfterResolve(call, [status |-> st, body |-> [downloadUrl |-> u]], u))
       ELSE Set(c, [call EXCEPT !.pc = "done", !.resp = [status |-> st, body |-> NoBody],
                                !.out = Raise("MetadataError", st)])
  /\ UNCHANGED <<token, folder, present, gone, made>>

download_bytes_resp(c) ==
  LET call == calls[c] IN
  /\ call.op = "download" /\ call.pc = "bytes_wait"
  /\ \E st \in BytesStatuses :
       Set(c, [call EXCEPT !.pc = "done", !.resp = [status |-> st, body |-> NoBody],
                 !.out = IF st \in {200, 206}
                         THEN Return([t |-> "stream", url |-> call.reqs[Len(call.reqs)].target])
                         ELSE Raise("DownloadError", st)])
  /\ UNCHANGED <<token, folder, present, gone, made>>

\* ------------------------------------------------------------------- upload

UploadStatuses == {200, 201, 404, 500}
Conflicts == {"replace"}

upload(c) ==
  \E path \in PathInputs, conflict \in Conflicts :
    /\ calls[c].op = "idle"
    /\ Set(c, [Idle EXCEPT !.op = "upload", !.pc = "conflict_wait", !.path = path,
                           !.existed = (_get_one_drive_id(folder, path) \in present),
                           !.reup = (_get_one_drive_id(folder, path) \in made),
                           !.reqs = <<Req("GET", "exists", path, Str0)>>])
    /\ UNCHANGED <<token, folder, present, gone, made>>

\* handle_name_conflict under "replace": the path as given, and whether an
\* item exists at it now.
handle_name_conflict(fld, path) == _get_one_drive_id(fld, path) \in present

\* Lines 204-206: the content-write request.
UploadReq(fld, path) ==
  LET fileName == _get_one_drive_id(fld, path)
  IN Req("PUT", "upload", fileName, _get_sub_folder_path(fld, path, fileName))

\* Line 196 answered, then lines 204-217: the content write is issued.
upload_conflict_resp(c) ==
  LET call == calls[c] IN
  /\ call.op = "upload" /\ call.pc = "conflict_wait"
  /\ Set(c, [call EXCEPT !.pc = "put_wait",
                !.exists = handle_name_conflict(folder, call.path),
                !.reqs = Log(@, UploadReq(folder, call.path))])
  /\ UNCHANGED <<token, folder, present, gone, made>>

\* The result with the flag not negated.
UploadOutcome_FlagNotNegated(st, data, exists) ==
  IF st = 201
  THEN Return([meta |-> OneDriveFileMetadata(data), created |-> exists])
  ELSE Raise("UploadError", st)

\* Lines 210-221: the result of upload.
UploadOutcome(st, data, exists) ==
  IF st = 201
  THEN Return([meta |-> OneDriveFileMetadata(data), created |-> ~exists])
  ELSE Raise("UploadError", st)

upload_resp(c) ==
  LET call == calls[c]
      leaf == _get_one_drive_id(folder, call.path)
  IN
  /\ call.op = "upload" /\ call.pc = "put_wait"
  /\ \E st \in UploadStatuses :
       /\ Set(c, [call EXCEPT !.pc = "done",
                     !.resp = [status |-> st, body |-> IF st \in {200, 201} THEN [id |-> leaf] ELSE NoBody],
                     !.out = UploadOutcome(st, [id |-> leaf], call.exists)])
       /\ IF st \in {200, 201} THEN Uploaded(leaf) ELSE UNCHANGED <<present, gone, made>>
  /\ UNCHANGED <<token, folder>>

\* ------------------------------------------------------------------- delete

delete(c) ==
  \E path \in PathInputs :
    /\ calls[c].op = "idle"
    /\ Set(c, [Idle EXCEPT !.op = "delete", !.pc = "delete_wait", !.path = path,
                           !.existed = (_get_one_drive_id(folder, path) \in present),
                           !.reqs = <<Req("DELETE", "delete", _get_one_drive_id(folder, path), Str0)>>])
    /\ UNCHANGED <<token, folder, present, gone, made>>

\* Lines 228-234: nothing is returned on 204.
DeleteOutcome(st) == IF st = 204 THEN Return(NoVal) ELSE Raise("DeleteError", st)

delete_resp(c) ==
  LET call == calls[c]
      leaf == _get_one_drive_id(folder, call.path)
  IN
  /\ call.op = "delete" /\ call.pc = "delete_wait"
  /\ \E st \in DeleteStatuses :
       /\ Set(c, [call EXCEPT !.pc = "done", !.resp = [status |-> st, body |-> NoBody],
                     !.out = DeleteOutcome(st)])
       /\ IF st = 204 THEN Removed(leaf) ELSE UNCHANGED <<present, gone, made>>
  /\ UNCHANGED <<token, folder>>

\* ----------------------------------------------------------------- metadata

Root == <<"/">>

\* Lines 239-248: what the lookup addresses.
MetadataReq(fld, path, revision) ==
  IF revision # "" THEN Req("GET", "metadata", full_path(fld, path), <<"r", "e", "v">>)
  ELSE IF full_path(fld, path) = <<"0", "/">> THEN Req("GET", "metadata", <<"r", "o", "o", "t">>, Str0)
  ELSE IF path = Root THEN Req("GET", "metadata", full_path(fld, path), Str0)
  ELSE Req("GET", "metadata", path, Str0)

metadata(c) ==
  \E path \in PathInputs \cup {Root}, revision \in {"", "e1"} :
    /\ calls[c].op = "idle"
    /\ Set(c, [Idle EXCEPT !.op = "metadata", !.pc = "meta_wait", !.path = path,
                           !.rev = revision,
                           !.existed = (_get_one_drive_id(folder, path) \in present),
                           !.reqs = <<MetadataReq(folder, path, revision)>>])
    /\ UNCHANGED <<token, folder, present, gone, made>>

\* The answers of the backend to a lookup of id: the record of an item that
\* exists; for one that does not, a not-found status or a record with the
\* deleted marker; a fault at any time.
MetadataAnswers(id) ==
  { [status |-> 500, body |-> NoBody] }
  \cup (IF id \in present \/ id = Str0
        THEN { [status |-> 200, body |-> d] : d \in LiveDicts(id) }
        ELSE { [status |-> 404, body |-> ErrorDict], [status |-> 400, body |-> ErrorDict] }
             \cup { [status |-> 200, body |-> d] : d \in DeletedDicts(id) })

\* Lines 279-287: the listing of a folder record.
FolderListing(data) ==
  IF "children" \in DOMAIN data
  THEN [i \in DOMAIN data.children |->
          IF "folder" \in DOMAIN data.children[i]
          THEN OneDriveFolderMetadata(data.children[i])
          ELSE OneDriveFileMetadata(data.children[i])]
  ELSE <<>>

\* Lines 252-289: the outcome of metadata for an answer.
MetadataOutcome(st, data) ==
  IF st \notin {200, 400} THEN Raise("MetadataError", st)
  ELSE IF Truthy(data, "deleted")
       THEN IF "folder" \in DOMAIN data THEN Raise("MetadataError", 404)
            ELSE Raise("KeyError", 0)
  ELSE IF "folder" \in DOMAIN data THEN Return([t |-> "list", items |-> FolderListing(data)])
  ELSE Return(OneDriveFileMetadata(data))

metadata_resp(c) ==
  LET call == calls[c] IN
  /\ call.op = "metadata" /\ call.pc = "meta_wait"
  /\ \E ans \in MetadataAnswers(_get_one_drive_id(folder, call.path)) :
       Set(c, [call EXCEPT !.pc = "done", !.resp = ans,
                 !.out = MetadataOutcome(ans.status, ans.body)])
  /\ UNCHANGED <<token, folder, present, gone, made>>

\* ------------------------------------------------------------ validate_path

ValidateStatuses == {200, 404, 500}

\* WaterButlerPath(path, prepend=...): the path and what is prepended to it
\* (Str0: nothing).
WaterButlerPath(path, prepend) == [t |-> "path", path |-> path, prepend |-> prepend]

\* validate_v1_path without the test for '/': the root is looked up too.
ValidateV1Start_NoRootCase(fld, path) ==
  [Idle EXCEPT !.op = "validate_v1_path", !.pc = "validate_wait", !.path = path,
               !.reqs = <<Req("GET", "validate", fld, Str0)>>]

\* Lines 33-42: '/' is answered at once; any other path looks the root
\* folder up first.
ValidateV1Start(fld, path) ==
  IF path = <<"/">>
  THEN [Idle EXCEPT !.op = "validate_v1_path", !.pc = "done", !.path = path,
                    !.out = Return(WaterButlerPath(path, fld))]
  ELSE [Idle EXCEPT !.op = "validate_v1_path", !.pc = "validate_wait", !.path = path,
                    !.reqs = <<Req("GET", "validate", fld, Str0)>>]

validate_v1_path(c) ==
  \E path \in PathInputs \cup {<<"/">>} :
    /\ calls[c].op = "idle"
    /\ Set(c, ValidateV1Start(folder, path))
    /\ UNCHANGED <<token, folder, present, gone, made>>

\* Lines 38-48: the path is returned with no prepend.
validate_v1_path_resp(c) ==
  LET call == calls[c] IN
  /\ call.op = "validate_v1_path" /\ call.pc = "validate_wait"
  /\ \E st \in ValidateStatuses :
       Set(c, [call EXCEPT !.pc = "done", !.resp = [status |-> st, body |-> NoBody],
                 !.out = IF st = 200 THEN Return(WaterButlerPath(call.path, Str0))
                         ELSE Raise("MetadataError", st)])
  /\ UNCHANGED <<token, folder, present, gone, made>>

\* Lines 50-52.
validate_path(c) ==
  \E path \in PathInputs \cup {<<"/">>} :
    /\ calls[c].op = "idle"
    /\ Set(c, [Idle EXCEPT !.op = "validate_path", !.pc = "done", !.path = path,
                           !.out = Return(WaterButlerPath(path, folder))])
    /\ UNCHANGED <<token, folder, present, gone, made>>

\* ---------------------------------------------------------------- revisions

OneDriveRevision(item) == [t |-> "revision", raw |-> item]

\* The list comprehension without its `if`: every entry yields a revision.
RevisionsList_NoFilter(items) == [i \in DOMAIN items |-> OneDriveRevision(items[i])]

RECURSIVE RevisionsList(_)
\* Lines 297-301: a revision per entry without the deleted marker.
RevisionsList(items) ==
  IF items = <<>> THEN <<>>
  ELSE (IF Truthy(Head(items), "deleted") THEN <<>> ELSE <<OneDriveRevision(Head(items))>>)
       \o RevisionsList(Tail(items))

revisions(c) ==
  \E path \in PathInputs :
    /\ calls[c].op = "idle"
    /\ Set(c, [Idle EXCEPT !.op = "revisions", !.pc = "feed_wait", !.path = path,
                           !.reqs = <<RevisionsReq(path)>>])
    /\ UNCHANGED <<token, folder, present, gone, made>>

revisions_resp(c) ==
  LET call == calls[c] IN
  /\ call.op = "revisions" /\ call.pc = "feed_wait"
  /\ \E st \in FeedStatuses :
       IF st = 200
       THEN \E items \in Feeds :
              Set(c, [call EXCEPT !.pc = "done",
                        !.resp = [status |-> st, body |-> [value |-> items]],
                        !.out = Return([t |-> "revisions", items |-> RevisionsList(items)])])
       ELSE Set(c, [call EXCEPT !.pc = "done", !.resp = [status |-> st, body |-> NoBody],
                                !.out = Raise("RevisionsError", st)])
  /\ UNCHANGED <<token, folder, present, gone, made>>

\* ------------------------------------------------------------ create_folder

\* str(path) of the folder paths callers hand in (they end in '/').
FolderInputs == { <<"/", "a", "/">>, <<"/", "a", "b", "/", "a", "/">> }

CreateStatuses == {200, 201, 404, 500}

\* parts[-3]
Antepenultimate(parts) == IF Len(parts) >= 3 THEN parts[Len(parts) - 2] ELSE Str0

\* Lines 328-346: the request of create_folder: POST {parent}/children with
\* the folder's name.
CreateFolderReq(fld, path) ==
  LET parts == Split(full_path(fld, path), Slash)
  IN Req("POST", "mkdir", Antepenultimate(parts), Penultimate(parts))

create_folder(c) ==
  \E path \in FolderInputs :
    /\ calls[c].op = "idle"
    /\ Set(c, [Idle EXCEPT !.op = "create_folder", !.pc = "create_wait", !.path = path,
                           !.reqs = <<CreateFolderReq(folder, path)>>])
    /\ UNCHANGED <<token, folder, present, gone, made>>

create_folder_resp(c) ==
  LET call == calls[c]
      name == call.reqs[1].arg
  IN
  /\ call.op = "create_folder" /\ call.pc = "create_wait"
  /\ \E st \in CreateStatuses :
       /\ Set(c, [call EXCEPT !.pc = "done",
                     !.resp = [status |-> st, body |-> IF st \in {200, 201} THEN [id |-> name, folder |-> TRUE] ELSE NoBody],
                     !.out = IF st = 201 THEN Return(OneDriveFolderMetadata([id |-> name, folder |-> TRUE]))
                             ELSE Raise("CreateFolderError", st)])
       /\ IF st \in {200, 201} THEN Stored(name) ELSE UNCHANGED <<present, gone, made>>
  /\ UNCHANGED <<token, folder>>

\* The caller takes the outcome; the caller's next invocation may start.
Finish(c) ==
  /\ calls[c].pc = "done"
  /\ Set(c, Idle)
  /\ UNCHANGED <<token, folder, present, gone, made>>

Step(c) ==
  \/ intra_copy(c)
  \/ intra_copy_resp(c)
  \/ intra_copy_delete_resp(c)
  \/ intra_move(c)
  \/ intra_move_resp(c)
  \/ download(c)
  \/ download_feed_resp(c)
  \/ download_content_resp(c)
  \/ download_bytes_resp(c)
  \/ upload(c)
  \/ upload_conflict_resp(c)
  \/ upload_resp(c)
  \/ delete(c)
  \/ delete_resp(c)
  \/ metadata(c)
  \/ metadata_resp(c)
  \/ validate_v1_path(c)
  \/ validate_v1_path_resp(c)
  \/ validate_path(c)
  \/ revisions(c)
  \/ revisions_resp(c)
  \/ create_folder(c)
  \/ create_folder_resp(c)
  \/ Finish(c)

Next == \E c \in SeqCallers : Step(c)

Spec == Init /\ [][Next]_vars

\* The move and copy operations alone, with every request answered and every
\* answer handled: the backend replies and the event loop resumes the
\* coroutine that waits for it.
MoveCopyStep(c) ==
  \/ intra_copy(c)
  \/ intra_copy_resp(c)
  \/ intra_copy_delete_resp(c)
  \/ intra_move(c)
  \/ intra_move_resp(c)
  \/ Finish(c)

MoveCopyNext == \E c \in SeqCallers : MoveCopyStep(c)

LiveSpec == Init /\ [][MoveCopyNext]_vars /\ WF_vars(MoveCopyNext)

\* Uploads of callers that do not wait for one another: the steps of the two
\* callers interleave at every suspension point.
UploadStep(c) ==
  \/ upload(c)
  \/ upload_conflict_resp(c)
  \/ upload_resp(c)
  \/ Finish(c)

ConcNext == \E c \in Callers : UploadStep(c)

ConcSpec == Init /\ [][ConcNext]_vars

\* ================================================================== claims

MoveCopyOps == {"intra_copy", "intra_move"}
SrcId(call) == _get_one_drive_id(folder, call.path)

\* C1: in intra_copy and intra_move a 403 answer to the copy request is
\* followed by exactly one destination delete and one re-issued copy request,
\* and a second 403 by no further request: at most 2 copy requests and at
\* most 1 destination delete per invocation, and an invocation that ended
\* after a 403 has issued its one delete.
C1_SingleBoundedRetry ==
  \A c \in Callers :
    calls[c].op \in MoveCopyOps =>
      /\ Count(calls[c].reqs, "copy") <= 2
      /\ Count(calls[c].reqs, "delete") <= 1
      /\ (403 \in calls[c].saw /\ calls[c].pc = "done") => Count(calls[c].reqs, "delete") = 1

\* C2: every invocation of intra_copy or intra_move that has started
\* eventually reaches a terminal outcome, whatever the backend answers.
C2_MoveCopyTerminates ==
  \A c \in Callers :
    (calls[c].op \in MoveCopyOps /\ calls[c].pc # "done") ~> (calls[c].pc = "done")

\* C3: intra_move and intra_copy with a source and a destination that differ
\* only in letter case raise InvalidPathError, and have issued no request.
C3_CaseOnlyRejected ==
  \A c \in Callers :
    (/\ calls[c].op \in MoveCopyOps
     /\ calls[c].path # calls[c].dest
     /\ SameButCase(folder, calls[c].path, calls[c].dest))
    => /\ calls[c].reqs = <<>>
       /\ calls[c].pc = "done"
       /\ calls[c].out.kind = "raise" /\ calls[c].out.err = "InvalidPathError"

\* C4: once intra_move has succeeded on a synchronous (200) answer, the
\* adapter has issued a request that removes or relocates the source item.
C4_MoveRemovesSource ==
  \A c \in Callers :
    (/\ calls[c].op = "intra_move" /\ calls[c].pc = "done"
     /\ calls[c].out.kind = "return" /\ calls[c].resp.status = 200)
    => \E i \in DOMAIN calls[c].reqs :
         /\ calls[c].reqs[i].kind \in {"delete", "move"}
         /\ calls[c].reqs[i].target = SrcId(calls[c])

\* C5: a 202 answer to the copy request of intra_move ends the invocation in
\* the PendingAsync outcome, never in a returned (metadata, flag) result; and
\* intra_copy returns no result for a 202.
C5_AcceptedIsPending ==
  \A c \in Callers :
    (calls[c].pc = "done" /\ calls[c].resp.status = 202) =>
      /\ calls[c].op = "intra_move" => calls[c].out.kind = "pending"
      /\ calls[c].op = "intra_copy" => calls[c].out.kind # "return"

\* C6: download with a revision token fetches the bytes from the download URL
\* of the first delta-feed entry whose eTag is the token; with no such entry
\* it raises NotFound, and neither the current-version resolve request nor a
\* download-bytes request is issued.
C6_RevisionLookup ==
  \A c \in Callers :
    LET call == calls[c] IN
    (call.op = "download" /\ call.rev # "") =>
      /\ Count(call.reqs, "content") = 0
      /\ Count(call.reqs, "bytes") <= 1
      /\ (call.resp.status = 200 /\ "value" \in DOMAIN call.resp.body) =>
           LET items == call.resp.body.value IN
           IF \E i \in DOMAIN items : items[i].eTag = call.rev
           THEN /\ call.pc = "bytes_wait"
                /\ Len(call.reqs) = 2
                /\ call.reqs[2].kind = "bytes"
                /\ \E i \in DOMAIN items :
                     /\ items[i].eTag = call.rev
                     /\ \A j \in 1..(i - 1) : items[j].eTag # call.rev
                     /\ call.reqs[2].target = items[i].downloadUrl
           ELSE /\ call.pc = "done"
                /\ call.out = Raise("NotFoundError", 404)
                /\ Count(call.reqs, "bytes") = 0

\* Two entries carry the token, with different URLs, and the bytes request
\* is out.
C6_Witness ==
  \E c \in Callers :
    /\ calls[c].op = "download" /\ calls[c].rev # "" /\ calls[c].pc = "bytes_wait"
    /\ "value" \in DOMAIN calls[c].resp.body
    /\ LET items == calls[c].resp.body.value IN
       /\ Len(items) = 2
       /\ items[1].eTag = calls[c].rev /\ items[2].eTag = calls[c].rev
       /\ items[1].downloadUrl # items[2].downloadUrl

\* C7: a metadata lookup answered with a record that carries the deleted
\* marker, a folder's or a file's, raises MetadataError/NotFound and ends in no
\* other way.
C7_DeletedRaisesNotFound ==
  \A c \in Callers :
    (/\ calls[c].op = "metadata" /\ calls[c].pc = "done"
     /\ calls[c].resp.status = 200
     /\ Truthy(calls[c].resp.body, "deleted"))
    => /\ calls[c].out.kind = "raise"
       /\ calls[c].out.err \in {"MetadataError", "NotFoundError"}
       /\ calls[c].out.code = 404

\* The children of a record that carry no deleted marker, in their order.
RECURSIVE LiveChildren(_)
LiveChildren(kids) ==
  IF kids = <<>> THEN <<>>
  ELSE (IF Truthy(Head(kids), "deleted") THEN <<>> ELSE <<Head(kids)>>) \o LiveChildren(Tail(kids))

\* C8: the listing metadata returns for a folder record holds exactly the
\* children without a deleted marker, in backend order.
C8_ListingDropsDeleted ==
  \A c \in Callers :
    (/\ calls[c].op = "metadata" /\ calls[c].pc = "done"
     /\ calls[c].out.kind = "return" /\ calls[c].out.val.t = "list"
     /\ "children" \in DOMAIN calls[c].resp.body)
    => LET live == LiveChildren(calls[c].resp.body.children)
           items == calls[c].out.val.items
       IN /\ Len(items) = Len(live)
          /\ \A i \in DOMAIN items : items[i].raw = live[i]

\* C9: under "replace" with no other writer, upload returns is-new = TRUE when
\* the name did not exist at the pre-upload check and FALSE when it did; a
\* later successful upload to a path this adapter uploaded returns FALSE.
C9_IsNewFlag ==
  \A c \in Callers :
    (calls[c].op = "upload" /\ calls[c].pc = "done" /\ calls[c].out.kind = "return") =>
      /\ calls[c].out.val.created = ~calls[c].existed
      /\ calls[c].out.val.created = ~calls[c].exists
      /\ calls[c].reup => calls[c].out.val.created = FALSE

\* A second upload to a path an earlier upload created has returned.
C9_Witness ==
  \E c \in Callers :
    /\ calls[c].op = "upload" /\ calls[c].pc = "done" /\ calls[c].out.kind = "return"
    /\ calls[c].reup
    /\ calls[c].out.val.created = FALSE

\* C10: after a delete answered 204, a metadata lookup of that identifier
\* which the backend answers with a not-found status or with a record that
\* carries the deleted marker raises a not-found-class error.
C10_DeletedThenNotFound ==
  \A c \in Callers :
    (/\ calls[c].op = "metadata" /\ calls[c].pc = "done"
     /\ _get_one_drive_id(folder, calls[c].path) \in gone
     /\ \/ calls[c].resp.status \in {400, 404}
        \/ calls[c].resp.status = 200 /\ Truthy(calls[c].resp.body, "deleted"))
    => /\ calls[c].out.kind = "raise"
       /\ calls[c].out.err \in {"MetadataError", "NotFoundError"}
       /\ calls[c].out.code \in {400, 404}

\* C11: validating the root path '/' (validate_v1_path, validate_path) returns
\* a path based on the configured root folder identifier and issues no
\* request; the configured root identifier is never changed.
C11_RootNeedsNoRequest ==
  /\ [](\A c \in Callers :
         (calls[c].op \in {"validate_v1_path", "validate_path"} /\ calls[c].path = <<"/">>)
         => /\ calls[c].reqs = <<>>
            /\ calls[c].pc = "done"
            /\ calls[c].out = Return(WaterButlerPath(<<"/">>, folder)))
  /\ [][folder' = folder]_vars

\* validate_v1_path of '/' has returned.
C11_Witness ==
  \E c \in Callers :
    /\ calls[c].op = "validate_v1_path" /\ calls[c].path = <<"/">>
    /\ calls[c].pc = "done" /\ calls[c].out.kind = "return"

\* The statuses each request expects, and the error kind raised on any other
\* (the table of the REST surface).
ExpectedOf(op, kind) ==
  CASE kind = "copy" -> IF op = "intra_move" THEN {200, 202} ELSE {200, 201}
    [] kind = "delete" -> {204}
    [] kind = "bytes" -> {200, 206}
    [] kind \in {"upload", "mkdir"} -> {201}
    [] kind = "metadata" -> {200, 400}
    [] OTHER -> {200}

ErrorOf(op, kind) ==
  CASE kind = "copy" -> IF op = "intra_move" THEN "IntraMoveError" ELSE "IntraCopyError"
    [] kind = "delete" -> "DeleteError"
    [] kind = "bytes" -> "DownloadError"
    [] kind = "upload" -> "UploadError"
    [] kind = "mkdir" -> "CreateFolderError"
    [] kind = "delta" -> "RevisionsError"
    [] OTHER -> "MetadataError"

\* C12: in every operation an answer whose status is outside the expected
\* set of its request ends the call with that request's error kind carrying
\* the status, with no result and no further request; a 403 to the copy
\* request of move/copy is recovered, or (in intra_move) surfaces as
\* IntraMoveError and as no other failure.
C12_UnexpectedStatusWrapped ==
  \A c \in Callers :
    LET call == calls[c] IN
    (call.resp.status # 0 /\ call.reqs # <<>> /\ Len(call.reqs) < MaxReqs) =>
      LET last == call.reqs[Len(call.reqs)] IN
      /\ (call.pc = "done" /\ call.resp.status \notin ExpectedOf(call.op, last.kind)) =>
           IF call.resp.status = 403 /\ last.kind = "copy"
           THEN \/ call.out.kind = "return"
                \/ call.out = Raise(ErrorOf(call.op, "copy"), 403)
           ELSE call.out = Raise(ErrorOf(call.op, last.kind), call.resp.status)
      /\ call.pc # "done" =>
           \/ call.resp.status \in {200, 204}
           \/ call.resp.status = 403 /\ call.op \in MoveCopyOps

\* C13: concurrent uploads are not serialized: each upload's flag comes from
\* its own pre-check alone, so two uploads to one path whose pre-checks both
\* ran before either content write both return is-new = TRUE.
C13_UploadsNotSerialized ==
  /\ \A c \in Callers :
       (calls[c].op = "upload" /\ calls[c].pc = "done" /\ calls[c].out.kind = "return")
       => calls[c].out.val.created = ~calls[c].exists
  /\ \A c \in Callers : \A d \in Callers \ {c} :
       (/\ calls[c].op = "upload" /\ calls[d].op = "upload"
        /\ calls[c].path = calls[d].path
        /\ calls[c].pc = "done" /\ calls[c].out.kind = "return"
        /\ calls[d].pc = "done" /\ calls[d].out.kind = "return"
        /\ ~calls[c].exists /\ ~calls[d].exists)
       => calls[c].out.val.created /\ calls[d].out.val.created

\* Two uploads to one path that did not exist have both returned TRUE.
C13_Witness ==
  \E c \in Callers : \E d \in Callers \ {c} :
    /\ calls[c].op = "upload" /\ calls[d].op = "upload"
    /\ calls[c].path = calls[d].path
    /\ ~calls[c].existed /\ ~calls[d].existed
    /\ calls[c].pc = "done" /\ calls[c].out.kind = "return" /\ calls[c].out.val.created
    /\ calls[d].pc = "done" /\ calls[d].out.kind = "return" /\ calls[d].out.val.created

\* C14: a move or copy that succeeded (its last copy request answered 200 or
\* 201) returns the flag FALSE when an item existed at the destination before
\* the call and TRUE when none did, whether or not a 403 was seen on the way.
C14_FlagReflectsDestination ==
  \A c \in Callers :
    LET call == calls[c] IN
    (/\ call.op \in MoveCopyOps /\ call.pc = "done"
     /\ call.out.kind = "return" /\ call.resp.status \in {200, 201})
    => call.out.val.created = ~call.existed

\* The destination item of a move or copy.
DestId(call) == _get_one_drive_id(folder, call.dest)

\* The part of C15 on the order of the requests: every copy request after the
\* first directly follows a delete of the destination, and a call that ended
\* on a failed delete issued nothing after it.
DeleteBeforeRetry(call) ==
  /\ \A i \in DOMAIN call.reqs :
       (i > 1 /\ call.reqs[i].kind = "copy") =>
         call.reqs[i - 1] = Req("DELETE", "delete", DestId(call), Str0)
  /\ (/\ call.pc = "done" /\ call.out.kind = "raise" /\ call.out.err = "DeleteError"
      /\ Len(call.reqs) < MaxReqs) =>
       call.reqs[Len(call.reqs)].kind = "delete"

\* The part of C15 on the other statuses: a copy request that failed with a
\* status other than 403, no 403 before it, raises the error with that status
\* and no delete was issued.
OtherStatusPropagates(call) ==
  (/\ call.pc = "done" /\ call.reqs # <<>> /\ 403 \notin call.saw
   /\ call.resp.status # 0
   /\ call.resp.status \notin ExpectedOf(call.op, "copy"))
  => /\ call.out = Raise(ErrorOf(call.op, "copy"), call.resp.status)
     /\ Count(call.reqs, "delete") = 0

\* C15: in intra_copy and intra_move a copy request that fails with a status
\* other than 403 raises with that status and no delete is issued; after a
\* 403 the destination delete is issued, strictly before the re-issued copy
\* request, and a failed delete prevents the retry.
C15_DeleteOnlyOn403 ==
  \A c \in Callers :
    LET call == calls[c] IN
    call.op \in MoveCopyOps =>
      /\ OtherStatusPropagates(call)
      /\ DeleteBeforeRetry(call)
      /\ (403 \in call.saw /\ call.pc = "done") => Count(call.reqs, "delete") >= 1

C17_UploadParentIsPrecedingSegment ==
  \A c \in Callers :
    LET call == calls[c]
        parts == Split(full_path(folder, call.path), Slash)
    IN
    (call.op = "upload" /\ Len(parts) >= 2) =>
      \A i \in DOMAIN call.reqs :
        call.reqs[i].kind = "upload" =>
          /\ call.reqs[i].target = parts[Len(parts)]
          /\ call.reqs[i].arg = parts[Len(parts) - 1]

\* The entries of a feed that carry no deleted marker, in feed order.
Unmarked(items) == SelectSeq(items, LAMBDA e : "deleted" \notin DOMAIN e)

C19_MetadataReturnsOn200Only ==
  \A c \in Callers :
    (calls[c].op = "metadata" /\ calls[c].pc = "done" /\ calls[c].out.kind = "return")
    => calls[c].resp.status = 200

\* The one request of the operations that issue a single request.
SingleRequestKind(op) ==
  CASE op = "metadata" -> "metadata"
    [] op = "delete" -> "delete"
    [] op = "create_folder" -> "mkdir"
    [] op = "revisions" -> "delta"

====
